---- MODULE Spec2Model ----
(***************************************************************************)
(* Model of the VLVN1_BE tournament backend.                               *)
(*                                                                         *)
(* The repository holds two versions of the server:                        *)
(*   src/unnamed/part_000  ranking with comparePlayers (five-level         *)
(*                         cascade), positions reassigned on sync/query;   *)
(*   src/src/server.ts     ranking on totalPoint/total only, positions     *)
(*                         kept as read from the sheet.                    *)
(* They differ only in comparePlayers, paginateAndSort and                 *)
(* sortLeaderboardDefault.  The variable `build` says which of the two is  *)
(* running; everything else is common code.  Spec is the server of         *)
(* part_000, the version with the ranking engine; the functions in which   *)
(* server.ts differs are exercised in both builds by SpecCmp and SpecSync. *)
(*                                                                         *)
(* Strings are sequences of one-character strings, so that trim,           *)
(* toLowerCase, Number and toString are computed, not assumed.             *)
(***************************************************************************)
EXTENDS Integers, Sequences, FiniteSets, TLC

VARIABLES
  build,              \* "part_000" | "server": which source file runs
  playersCache,       \* let playersCache: Player[]
  leaderboardCache,   \* let leaderboardCache: LeaderboardEntry[]
  leaderboard2Cache,  \* let leaderboard2Cache: LeaderboardEntry[]
  lobbiesData,        \* let lobbiesData: { day1, day2 }
  lastUpdated,        \* let lastUpdated: the heartbeat, as the rank of its instant
  cycle,              \* per call of syncAllData: "notStarted" | "running" | "joined"
  pipe,               \* per call of syncAllData, per sync function: where it is
  listening,          \* server.listen has been called
  reply,              \* the last request served and the response sent
  entryA, entryB,     \* ranking engine: the two entries handed to a comparator
  cres                \* function checks: the last call made and its result

caches == <<playersCache, leaderboardCache, leaderboard2Cache, lobbiesData>>
serverVars == <<caches, lastUpdated, cycle, pipe, listening, reply>>
cmpVars == <<entryA, entryB, cres>>
vars == <<build, serverVars, cmpVars>>

Builds == {"part_000", "server"}

-----------------------------------------------------------------------------
(* Strings *)

\* the JS value undefined where a string is expected (a missing array element,
\* object field or query parameter): a value no string is equal to
Undefined == <<"undefined">>

\* JS numbers that may be NaN or infinite (the results of parseInt and Number on
\* request parameters and what is computed from them)
Num(n) == [t |-> "number", v |-> n]
NaN == [t |-> "NaN", v |-> 0]
Infinity == [t |-> "Infinity", v |-> 0]
IsNum(x) == x.t = "number"

Digits == <<"0", "1", "2", "3", "4", "5", "6", "7", "8", "9">>
IsDigit(c) == \E d \in 1..10 : Digits[d] = c
DigitVal(c) == (CHOOSE d \in 1..10 : Digits[d] = c) - 1

\* String.prototype.toLowerCase on one character (the letters the model uses)
LowerChar(c) ==
  CASE c = "N" -> "n" [] c = "A" -> "a" [] c = "M" -> "m" [] c = "E" -> "e"
    [] c = "B" -> "b" [] c = "P" -> "p" [] c = "T" -> "t" [] c = "O" -> "o"
    [] OTHER -> c

toLowerCase(s) == [i \in 1..Len(s) |-> LowerChar(s[i])]

RECURSIVE trimStart(_)
trimStart(s) ==
  IF s # <<>> /\ Head(s) = " " THEN trimStart(Tail(s)) ELSE s

RECURSIVE trimEnd(_)
trimEnd(s) ==
  IF s # <<>> /\ s[Len(s)] = " " THEN trimEnd(SubSeq(s, 1, Len(s) - 1)) ELSE s

\* String.prototype.trim
trim(s) == trimEnd(trimStart(s))

\* String.prototype.includes
includes(s, sub) ==
  \E i \in 0..(Len(s) - Len(sub)) : SubSeq(s, i + 1, i + Len(sub)) = sub

\* Number.prototype.toString of a non-negative integer
RECURSIVE toString(_)
toString(n) ==
  IF n < 10 THEN <<Digits[n + 1]>>
  ELSE toString(n \div 10) \o <<Digits[(n % 10) + 1]>>

\* value of a string of decimal digits
RECURSIVE DigitsValue(_)
DigitsValue(s) ==
  IF s = <<>> THEN 0
  ELSE 10 * DigitsValue(SubSeq(s, 1, Len(s) - 1)) + DigitVal(s[Len(s)])

\* Number(x): undefined -> NaN, blank -> 0, decimal digits -> their value,
\* anything else -> NaN (signs, fractions and exponents are not modelled)
Number(x) ==
  IF x = Undefined THEN NaN
  ELSE LET s == trim(x)
       IN  IF s = <<>> THEN Num(0)
           ELSE IF \A i \in 1..Len(s) : IsDigit(s[i]) THEN Num(DigitsValue(s))
           ELSE NaN

\* Number(x) || 0
NumberOr0(x) == IF IsNum(Number(x)) THEN Number(x).v ELSE 0

\* the longest prefix of decimal digits
RECURSIVE DigitPrefix(_)
DigitPrefix(s) ==
  IF s # <<>> /\ IsDigit(Head(s)) THEN <<Head(s)>> \o DigitPrefix(Tail(s)) ELSE <<>>

\* parseInt(x): leading blanks skipped, an optional minus sign, then the decimal
\* digits; NaN when there is no digit
parseInt(x) ==
  LET s == trimStart(x)
      neg == s # <<>> /\ Head(s) = "-"
      d == DigitPrefix(IF neg THEN Tail(s) ELSE s)
  IN  IF d = <<>> THEN NaN
      ELSE Num(IF neg THEN -DigitsValue(d) ELSE DigitsValue(d))

\* JS arithmetic on numbers that may be NaN: a - b, a + b, a * b (finite or NaN)
JsSub(a, b) == IF IsNum(a) /\ IsNum(b) THEN Num(a.v - b.v) ELSE NaN
JsAdd(a, b) == IF IsNum(a) /\ IsNum(b) THEN Num(a.v + b.v) ELSE NaN
JsMul(a, b) == IF IsNum(a) /\ IsNum(b) THEN Num(a.v * b.v) ELSE NaN

\* Math.floor(n / d) in the place of Math.ceil(n / d)
JsFloorDiv(n, d) ==
  IF ~IsNum(d) THEN NaN
  ELSE IF d.v = 0 THEN (IF n = 0 THEN NaN ELSE Infinity)
  ELSE IF d.v > 0 THEN Num(n \div d.v)
  ELSE Num(-((n + (-d.v) - 1) \div (-d.v)))

\* Math.ceil(n / d) for an integer n >= 0 and a JS number d
JsCeilDiv(n, d) ==
  IF ~IsNum(d) THEN NaN
  ELSE IF d.v = 0 THEN (IF n = 0 THEN NaN ELSE Infinity)
  ELSE IF d.v > 0 THEN Num((n + d.v - 1) \div d.v)
  ELSE Num(-(n \div (-d.v)))

\* arr[i] for a 0-based JS index: undefined outside the array
At(arr, i) == IF i >= 0 /\ i < Len(arr) THEN arr[i + 1] ELSE Undefined

\* Array.prototype.indexOf, 0-based, -1 when absent
indexOf(arr, x) ==
  IF \E i \in 1..Len(arr) : arr[i] = x
    THEN (CHOOSE i \in 1..Len(arr) : arr[i] = x /\ \A j \in 1..(i - 1) : arr[j] # x) - 1
    ELSE -1

\* x || "" for a string or undefined
OrEmpty(x) == IF x = Undefined THEN <<>> ELSE x

\* Array.prototype.slice(start, end) with JS index normalisation
\* (NaN -> 0, negative counts from the end, clamped to the length)
SliceIndex(n, len) ==
  IF n = NaN THEN 0
  ELSE IF n = Infinity THEN len
  ELSE IF n.v < 0 THEN (IF len + n.v < 0 THEN 0 ELSE len + n.v)
  ELSE IF n.v > len THEN len ELSE n.v

slice(arr, start, end) ==
  LET from == SliceIndex(start, Len(arr))
      to == SliceIndex(end, Len(arr))
  IN  IF from >= to THEN <<>> ELSE SubSeq(arr, from + 1, to)

-----------------------------------------------------------------------------
(* Ranking engine: src/unnamed/part_000 lines 60-100 *)

SortKeys == {"total", "totalPoint"}
Orders == {"asc", "desc"}

\* matches.filter((m) => m === rank).length
CountRank(matches, rank) ==
  Cardinality({i \in DOMAIN matches : matches[i] = rank})

\* getScoreTB2 with the lower bound of the top-4 test dropped (m <= 4 only)
getScoreTB2NoLowerBound(matches) ==
  LET wins == CountRank(matches, 1)
      top4 == Cardinality({i \in DOMAIN matches : matches[i] <= 4})
  IN  wins * 2 + top4

\* getScoreTB2: wins * 2 + top4
getScoreTB2(matches) ==
  LET wins == CountRank(matches, 1)
      top4 == Cardinality({i \in DOMAIN matches : matches[i] >= 1 /\ matches[i] <= 4})
  IN  wins * 2 + top4

\* getLastMatch taking the first valid match instead of the last
getLastMatchFirst(matches) ==
  LET validMatches == SelectSeq(matches, LAMBDA m : m > 0)
  IN  IF Len(validMatches) > 0 THEN validMatches[1] ELSE 9

\* getLastMatch returning the slot of the last valid match instead of its placement
getLastMatchSlot(matches) ==
  LET validSlots == {i \in DOMAIN matches : matches[i] > 0}
  IN  IF validSlots # {}
        THEN CHOOSE i \in validSlots : \A j \in validSlots : j <= i
        ELSE 9

\* getLastMatch: the last placement > 0, or 9
getLastMatch(matches) ==
  LET validMatches == SelectSeq(matches, LAMBDA m : m > 0)
  IN  IF Len(validMatches) > 0 THEN validMatches[Len(validMatches)] ELSE 9

\* the for loop over rank = 1..8: the first rank whose counts differ, or 9
RECURSIVE FirstRankDiff(_, _, _)
FirstRankDiff(a, b, rank) ==
  IF rank > 8 THEN 9
  ELSE IF CountRank(b.matches, rank) # CountRank(a.matches, rank) THEN rank
  ELSE FirstRankDiff(a, b, rank + 1)

\* comparePlayers with the return statement that produced the result:
\* level 1 = line 68, 2 = line 73, 3 = line 83, 4 = line 89, 5 = line 99
comparePlayersAt(a, b, sortBy) ==
  LET valA == a[sortBy]
      valB == b[sortBy]
      secondaryKey == IF sortBy = "totalPoint" THEN "total" ELSE "totalPoint"
      tb2A == getScoreTB2(a.matches)
      tb2B == getScoreTB2(b.matches)
      rank == FirstRankDiff(a, b, 1)
      lastA == getLastMatch(a.matches)
      lastB == getLastMatch(b.matches)
  IN  IF valB # valA THEN [level |-> 1, res |-> valB - valA]
      ELSE IF b[secondaryKey] # a[secondaryKey]
        THEN [level |-> 2, res |-> b[secondaryKey] - a[secondaryKey]]
      ELSE IF tb2B # tb2A THEN [level |-> 3, res |-> tb2B - tb2A]
      ELSE IF rank <= 8
        THEN [level |-> 4,
              res |-> CountRank(b.matches, rank) - CountRank(a.matches, rank)]
      ELSE [level |-> 5, res |-> lastA - lastB]

comparePlayers(a, b, sortBy) == comparePlayersAt(a, b, sortBy).res

\* the callback inverting the primary key only
sortCallbackPrimaryOnly(a, b, sortBy, order) ==
  LET result == comparePlayers(a, b, sortBy)
  IN  IF order = "asc" /\ a[sortBy] # b[sortBy] THEN -result ELSE result

\* the callback paginateAndSort hands to Array.sort, part_000 lines 139-142
sortCallbackRanked(a, b, sortBy, order) ==
  LET result == comparePlayers(a, b, sortBy)
  IN  IF order = "asc" THEN -result ELSE result

\* the callback paginateAndSort hands to Array.sort, server.ts lines 100-104
sortCallbackPlain(a, b, sortBy, order) ==
  LET valA == a[sortBy]
      valB == b[sortBy]
  IN  IF order = "asc" THEN valA - valB ELSE valB - valA

sortCallback(bld, a, b, sortBy, order) ==
  IF bld = "part_000" THEN sortCallbackRanked(a, b, sortBy, order)
  ELSE sortCallbackPlain(a, b, sortBy, order)

\* the callback sortLeaderboardDefault hands to Array.sort, server.ts lines 125-128
defaultCallbackPlain(a, b) ==
  IF b.totalPoint # a.totalPoint THEN b.totalPoint - a.totalPoint
  ELSE b.total - a.total

\* a callback handed to Array.sort, applied to (a, b)
ApplyCallback(cb, a, b) ==
  CASE cb.fn = "comparePlayers" -> comparePlayers(a, b, cb.sortBy)
    [] cb.fn = "defaultPlain" -> defaultCallbackPlain(a, b)
    [] cb.fn = "sortCallback" -> sortCallback(cb.build, a, b, cb.sortBy, cb.order)

\* Array.prototype.sort(callback): stable; each element is inserted after every
\* element that does not sort after it
RECURSIVE InsertSorted(_, _, _)
InsertSorted(sorted, x, cb) ==
  IF sorted = <<>> THEN <<x>>
  ELSE IF ApplyCallback(cb, sorted[Len(sorted)], x) <= 0 THEN Append(sorted, x)
  ELSE Append(InsertSorted(SubSeq(sorted, 1, Len(sorted) - 1), x, cb),
              sorted[Len(sorted)])

RECURSIVE SortedPrefix(_, _, _)
SortedPrefix(arr, n, cb) ==
  IF n = 0 THEN <<>>
  ELSE InsertSorted(SortedPrefix(arr, n - 1, cb), arr[n], cb)

sort(arr, cb) == SortedPrefix(arr, Len(arr), cb)

\* .map((item, index) => ({ ...item, position: (index + 1).toString() }))
Reposition(arr) ==
  [i \in 1..Len(arr) |-> [arr[i] EXCEPT !.position = toString(i)]]

\* sortLeaderboardDefault: part_000 lines 165-172, server.ts lines 124-129
sortLeaderboardDefault(bld, data) ==
  IF bld = "part_000"
    THEN Reposition(sort(data, [fn |-> "comparePlayers", sortBy |-> "totalPoint"]))
    ELSE sort(data, [fn |-> "defaultPlain"])

-----------------------------------------------------------------------------
(* Fetch and parse: the four sync functions, part_000 lines 176-339          *)
(* (server.ts lines 133-296 are the same code).  A response is what          *)
(* axios.get and Papa.parse hand to the function: either the request threw,  *)
(* or a grid (array of rows of string cells; players: array of row objects). *)

FetchError == [error |-> TRUE, rows |-> <<>>]
Fetched(rows) == [error |-> FALSE, rows |-> rows]

\* a value for "the JS value null" beside a value: <<>> or <<x>>
Null == <<>>
Some(x) == <<x>>

HdrName == <<"n","a","m","e">>
HdrPosition == <<"p","o","s","i","t","i","o","n">>
HdrPrize == <<"p","r","i","z","e">>
HdrM(k) == <<"m", Digits[k + 1]>>
HdrTotal == <<"t","o","t","a","l">>
HdrTotalPoint == <<"t","o","t","a","l"," ","p","o","i","n","t">>

\* rows.findIndex((row) => row.some((cell) => cell?.toString().trim().toLowerCase() === "name"))
IsHeaderRow(row) == \E i \in 1..Len(row) : toLowerCase(trim(row[i])) = HdrName

findHeaderIndex(rows) ==
  IF \E r \in 1..Len(rows) : IsHeaderRow(rows[r])
    THEN (CHOOSE r \in 1..Len(rows) :
            IsHeaderRow(rows[r]) /\ \A q \in 1..(r - 1) : ~IsHeaderRow(rows[q])) - 1
    ELSE -1

\* the columns taken at fixed places, in the order of the sheet of the day,
\* instead of being looked up in the header row
columnIndexFixed(headerRow) ==
  [pos |-> 0, prize |-> 1, name |-> 2, m |-> [k \in 1..6 |-> k + 2],
   total |-> 9, totalPoint |-> 10]

\* const idx = { pos: headerRow.indexOf("position"), ... }
columnIndex(headerRow) ==
  [pos |-> indexOf(headerRow, HdrPosition),
   prize |-> indexOf(headerRow, HdrPrize),
   name |-> indexOf(headerRow, HdrName),
   m |-> [k \in 1..6 |-> indexOf(headerRow, HdrM(k))],
   total |-> indexOf(headerRow, HdrTotal),
   totalPoint |-> indexOf(headerRow, HdrTotalPoint)]

\* .filter((row) => row[idx.name]?.trim() !== ""): a missing cell passes the test
keepRow(row, idx) ==
  At(row, idx.name) = Undefined \/ trim(At(row, idx.name)) # <<>>

\* .map((row) => ({ position: ..., name: row[idx.name]!.trim(), ... }))
toEntry(row, idx) ==
  [position |-> OrEmpty(At(row, idx.pos)),
   prize |-> OrEmpty(At(row, idx.prize)),
   name |-> trim(At(row, idx.name)),
   matches |-> [k \in 1..6 |-> NumberOr0(At(row, idx.m[k]))],
   total |-> NumberOr0(At(row, idx.total)),
   totalPoint |-> NumberOr0(At(row, idx.totalPoint))]

\* The body of syncLeaderboardData / syncLeaderboard2Data up to the assignment:
\* [assigned |-> whether line 242 / 293 is reached, value |-> what it assigns,
\*  why |-> how the function ended]
parseLeaderboard(bld, resp) ==
  IF resp.error THEN [assigned |-> FALSE, value |-> <<>>, why |-> "fetch threw"]
  ELSE IF Len(resp.rows) = 0
    THEN [assigned |-> FALSE, value |-> <<>>, why |-> "no rows"]
  ELSE LET rows == resp.rows
           headerIndex == findHeaderIndex(rows)
       IN  IF headerIndex = -1
             THEN [assigned |-> FALSE, value |-> <<>>, why |-> "no header"]
           ELSE
             LET headerRow == [i \in 1..Len(rows[headerIndex + 1]) |->
                                 toLowerCase(trim(rows[headerIndex + 1][i]))]
                 idx == columnIndex(headerRow)
                 body == SubSeq(rows, headerIndex + 2, Len(rows))
                 kept == SelectSeq(body, LAMBDA row : keepRow(row, idx))
             IN  IF \E i \in 1..Len(kept) : At(kept[i], idx.name) = Undefined
                   \* row[idx.name]!.trim() on undefined: TypeError, caught at 243
                   THEN [assigned |-> FALSE, value |-> <<>>, why |-> "map threw"]
                   ELSE [assigned |-> TRUE,
                         value |-> sortLeaderboardDefault(bld,
                                     [i \in 1..Len(kept) |-> toEntry(kept[i], idx)]),
                         why |-> "assigned"]

\* the cache reset before the grid is validated
syncLeaderboardDataClearing(bld, cache, resp) ==
  LET r == parseLeaderboard(bld, resp)
  IN  [assigned |-> r.assigned, cache |-> IF r.assigned THEN r.value ELSE <<>>]

\* syncLeaderboardData / syncLeaderboard2Data: the cache after the function
\* ran, and whether the function reached its assignment
syncLeaderboardData(bld, cache, resp) ==
  LET r == parseLeaderboard(bld, resp)
  IN  [assigned |-> r.assigned, cache |-> IF r.assigned THEN r.value ELSE cache]

\* syncPlayersData (rows are the objects Papa.parse builds with header: true)
KeySummoner == "SUMMONER NAME"
KeyRank == "RANK POINTS"
KeyEmail == "EMAIL"

keepPlayer(row) ==
  /\ row[KeySummoner] # Undefined
  /\ row[KeySummoner] # <<>>
  /\ trim(row[KeySummoner]) # <<>>

toPlayer(row) ==
  [summonerName |-> trim(row[KeySummoner]),
   rankPoints |-> NumberOr0(row[KeyRank]),
   email |-> IF row[KeyEmail] = Undefined THEN <<>> ELSE row[KeyEmail]]

syncPlayersData(cache, resp) ==
  IF resp.error THEN [assigned |-> FALSE, cache |-> cache]
  ELSE LET kept == SelectSeq(resp.rows, keepPlayer)
       IN  [assigned |-> TRUE, cache |-> [i \in 1..Len(kept) |-> toPlayer(kept[i])]]

\* syncLobbiesData: CONFIG, part_000 lines 307-314
PLAYER_START_ROW == 4
LOBBY_ROW_STEP == 9
ROUND_COL_STEP == 5
DAY2_START_COL == 30
TOTAL_ROUNDS == 6
TOTAL_LOBBIES == 8
LobbySize == 8        \* for (let m = 0; m < 8; m++)

\* rows[r]?.[c]?.trim() || ""
memberName(rows, r, c) ==
  IF r < 0 \/ r >= Len(rows) THEN <<>>
  ELSE IF At(rows[r + 1], c) = Undefined THEN <<>>
  ELSE trim(At(rows[r + 1], c))

LobbyLabel(l) == <<"L","o","b","b","y"," ">> \o toString(l + 1)

\* parseDay pushing a member only when the cell holds a name
parseDayDroppingEmpty(rows, startCol, dayNum) ==
  [day |-> dayNum,
   rounds |-> [r1 \in 1..TOTAL_ROUNDS |->
     LET r == r1 - 1
         colIndex == startCol + r * ROUND_COL_STEP
     IN  [roundNumber |-> r + 1,
          lobbies |-> [l1 \in 1..TOTAL_LOBBIES |->
            LET l == l1 - 1
                playerStartRow == PLAYER_START_ROW + l * LOBBY_ROW_STEP
            IN  [lobbyName |-> LobbyLabel(l),
                 members |-> SelectSeq(
                   [m1 \in 1..LobbySize |->
                      [name |-> memberName(rows, playerStartRow + (m1 - 1), colIndex)]],
                   LAMBDA member : member.name # <<>>)]]]]]

\* parseDay with the lobbies packed LobbySize rows apart instead of LOBBY_ROW_STEP
parseDayPacked(rows, startCol, dayNum) ==
  [day |-> dayNum,
   rounds |-> [r1 \in 1..TOTAL_ROUNDS |->
     LET r == r1 - 1
         colIndex == startCol + r * ROUND_COL_STEP
     IN  [roundNumber |-> r + 1,
          lobbies |-> [l1 \in 1..TOTAL_LOBBIES |->
            LET l == l1 - 1
                playerStartRow == PLAYER_START_ROW + l * LobbySize
            IN  [lobbyName |-> LobbyLabel(l),
                 members |-> [m1 \in 1..LobbySize |->
                   [name |-> memberName(rows, playerStartRow + (m1 - 1), colIndex)]]]]]]]

parseDay(rows, startCol, dayNum) ==
  [day |-> dayNum,
   rounds |-> [r1 \in 1..TOTAL_ROUNDS |->
     LET r == r1 - 1
         colIndex == startCol + r * ROUND_COL_STEP
     IN  [roundNumber |-> r + 1,
          lobbies |-> [l1 \in 1..TOTAL_LOBBIES |->
            LET l == l1 - 1
                playerStartRow == PLAYER_START_ROW + l * LOBBY_ROW_STEP
            IN  [lobbyName |-> LobbyLabel(l),
                 members |-> [m1 \in 1..LobbySize |->
                   [name |-> memberName(rows, playerStartRow + (m1 - 1), colIndex)]]]]]]]

\* day 2 left as it was: only lobbiesData.day1 is assigned
syncLobbiesDataDay1Only(data, resp) ==
  IF resp.error THEN [assigned |-> FALSE, cache |-> data]
  ELSE [assigned |-> TRUE,
        cache |-> [data EXCEPT !.day1 = Some(parseDay(resp.rows, 0, 1))]]

\* syncLobbiesData: lobbiesData after the function ran (lines 334-335 run in
\* one turn of the event loop: nothing else runs between the two assignments)
syncLobbiesData(data, resp) ==
  IF resp.error THEN [assigned |-> FALSE, cache |-> data]
  ELSE [assigned |-> TRUE,
        cache |-> [day1 |-> Some(parseDay(resp.rows, 0, 1)),
                   day2 |-> Some(parseDay(resp.rows, DAY2_START_COL, 2))]]

-----------------------------------------------------------------------------
(* Query layer: part_000 lines 128-163 and 355-441, server.ts 92-121, 312-402 *)

\* an absent sortBy / order parameter
Absent == "undefined"

NoQuery ==
  [page |-> Undefined, limit |-> Undefined, sortBy |-> Absent, order |-> Absent,
   name |-> Undefined, minPoint |-> Undefined, q |-> Undefined]

\* a query parameter used as a condition: if (query.name), page || "1"
Truthy(x) == x # Undefined /\ x # <<>>

\* let processedData = [...data]; processedData.sort(cb): the sorted copy, and
\* the array passed as `data` as the statement leaves it
sortInPlace(data, cb) == [sorted |-> sort(data, cb), arg |-> sort(data, cb)]

sortCopy(data, cb) == [sorted |-> sort(data, cb), arg |-> data]

\* paginateAndSort of part_000.  `arg` is the array passed as `data` as the
\* call leaves it.
paginateAndSortRanked(data, query) ==
  LET page == IF query.page = Undefined THEN <<"1">> ELSE query.page
      limit == IF query.limit = Undefined THEN <<"1","0">> ELSE query.limit
      sortBy == IF query.sortBy = Absent THEN "totalPoint" ELSE query.sortBy
      order == IF query.order = Absent THEN "desc" ELSE query.order
      processedData == sortCopy(data, [fn |-> "sortCallback", build |-> "part_000",
                                       sortBy |-> sortBy, order |-> order])
      rankedData == Reposition(processedData.sorted)
      currentPage == parseInt(page)
      pageSize == parseInt(limit)
      startIndex == JsMul(JsSub(currentPage, Num(1)), pageSize)
  IN  [meta |-> [total |-> Len(data), currentPage |-> currentPage,
                 pageSize |-> pageSize,
                 totalPages |-> JsCeilDiv(Len(data), pageSize)],
       data |-> slice(rankedData, startIndex, JsAdd(startIndex, pageSize)),
       arg |-> processedData.arg]

\* paginateAndSort of server.ts: sorts only when sortBy is given, on that key alone
paginateAndSortPlain(data, query) ==
  LET page == IF query.page = Undefined THEN <<"1">> ELSE query.page
      limit == IF query.limit = Undefined THEN <<"1","0">> ELSE query.limit
      order == IF query.order = Absent THEN "desc" ELSE query.order
      processedData ==
        IF query.sortBy \in {"total", "totalPoint"}
          THEN sortCopy(data, [fn |-> "sortCallback", build |-> "server",
                               sortBy |-> query.sortBy, order |-> order])
          ELSE [sorted |-> data, arg |-> data]
      currentPage == parseInt(page)
      pageSize == parseInt(limit)
      startIndex == JsMul(JsSub(currentPage, Num(1)), pageSize)
  IN  [meta |-> [total |-> Len(data), currentPage |-> currentPage,
                 pageSize |-> pageSize,
                 totalPages |-> JsCeilDiv(Len(data), pageSize)],
       data |-> slice(processedData.sorted, startIndex, JsAdd(startIndex, pageSize)),
       arg |-> processedData.arg]

paginateAndSort(bld, data, query) ==
  IF bld = "part_000" THEN paginateAndSortRanked(data, query)
  ELSE paginateAndSortPlain(data, query)

\* the filters of GET /api/leaderboard/search and /api/leaderboard2/search
searchFilter(cache, query) ==
  LET byName ==
        IF Truthy(query.name)
          THEN SelectSeq(cache, LAMBDA e :
                 includes(toLowerCase(e.name), toLowerCase(query.name)))
          ELSE cache
  IN  IF Truthy(query.minPoint)
        THEN SelectSeq(byName, LAMBDA e :
               IsNum(Number(query.minPoint)) /\ e.totalPoint >= Number(query.minPoint).v)
        ELSE byName

\* GET /api/players
playersReply(cache, query) ==
  LET data == IF Truthy(query.q)
                THEN SelectSeq(cache, LAMBDA pl :
                       includes(toLowerCase(pl.summonerName), toLowerCase(query.q)))
                ELSE cache
      currentPage == parseInt(IF Truthy(query.page) THEN query.page ELSE <<"1">>)
      pageSize == parseInt(IF Truthy(query.limit) THEN query.limit ELSE <<"1","0">>)
      startIndex == JsMul(JsSub(currentPage, Num(1)), pageSize)
  IN  [route |-> "players", success |-> TRUE,
       meta |-> [total |-> Len(data), currentPage |-> currentPage,
                 pageSize |-> pageSize,
                 totalPages |-> JsCeilDiv(Len(data), pageSize)],
       data |-> slice(data, startIndex, JsAdd(startIndex, pageSize))]

\* GET /api/leaderboard, /api/leaderboard2 and their /search variants
leaderboardReply(route, page) ==
  [route |-> route, success |-> TRUE, meta |-> page.meta, data |-> page.data]

\* GET /api/leaderboard/top-performers
topPerformersReply(lb1, lb2, stamp) ==
  [route |-> "top-performers", success |-> TRUE,
   day1 |-> slice(lb1, Num(0), Num(3)), day2 |-> slice(lb2, Num(0), Num(3)),
   timestamp |-> stamp]

\* GET /health
healthReply(stamp) == [route |-> "health", status |-> "ok", lastSync |-> stamp]

\* GET /api/lobbies/:day
lobbiesReply(data, day) ==
  LET result == IF day = <<"1">> THEN data.day1 ELSE data.day2
  IN  IF result = Null
        THEN [route |-> "lobbies", code |-> 404, success |-> FALSE,
              message |-> "Not found", data |-> Null]
        ELSE [route |-> "lobbies", code |-> 200, success |-> TRUE,
              message |-> "", data |-> result]

-----------------------------------------------------------------------------
(* The sheets behind the four URLs.  The sheet a fetch of refresh cycle v    *)
(* reads is version v of it; its content changes from version to version.    *)

Str(n) == toString(n)

\* one data row of a leaderboard sheet, in the column order of LbHeader
LbRow(pos, name, m, total, totalPoint) ==
  <<pos, <<"$">>, name>> \o [k \in 1..6 |-> Str(m[k])] \o <<Str(total), Str(totalPoint)>>

LbHeader ==
  << <<"P","o","s","i","t","i","o","n">>, <<"P","r","i","z","e">>,
     <<" ","N","A","M","E"," ">>,
     <<"M","1">>, <<"M","2">>, <<"M","3">>, <<"M","4">>, <<"M","5">>, <<"M","6">>,
     <<"T","o","t","a","l">>, <<"T","o","t","a","l"," ","P","o","i","n","t">> >>

\* Leaderboard sheet `board` (1 or 2), version v: a title row, the header row,
\* three players and a padding row.  The first two players tie through level 4
\* and the sheet lists them in the reverse of their level-5 order; the third
\* player's points grow with the version.
LeaderboardSheet(board, v) ==
  LET tag == IF board = 1 THEN "a" ELSE "x"
  IN  << << <<"V","L","V","N">> >>,
         LbHeader,
         LbRow(<<"1">>, <<tag, "1">>, <<1,2,0,0,0,0>>, 3, 15),
         LbRow(<<"2">>, <<" ", tag, "2", " ">>, <<2,1,0,0,0,0>>, 3, 15),
         LbRow(<<"3">>, <<tag, "3">>, <<3,0,0,0,0,0>>, board, 15 + v),
         LbRow(<<>>, <<" ">>, <<0,0,0,0,0,0>>, 0, 0) >>

\* grids on which syncLeaderboardData gives up
EmptyGrid == <<>>
NoHeaderGrid == << << <<"V","L","V","N">> >>, << <<"1">>, <<"a","1">> >> >>
\* a data row that ends before the name column
ShortRowGrid == << LbHeader, << <<"1">>, <<"$">> >> >>

LeaderboardResponses(board, v) ==
  { FetchError, Fetched(EmptyGrid), Fetched(NoHeaderGrid), Fetched(ShortRowGrid),
    Fetched(LeaderboardSheet(board, v)) }

PlayerRow(sn, rp, em) ==
  [k \in {KeySummoner, KeyRank, KeyEmail} |->
     IF k = KeySummoner THEN sn ELSE IF k = KeyRank THEN rp ELSE em]

PlayersSheet(v) ==
  << PlayerRow(<<" ","P","a"," ">>, Str(100 + v), <<"m">>),
     PlayerRow(<<" "," ">>, <<"7">>, <<>>),
     PlayerRow(<<"b">>, <<"n","a">>, Undefined) >>

PlayersResponses(v) == { FetchError, Fetched(PlayersSheet(v)) }

\* The lobby sheet: rows 4 and 5 hold names for rounds 1 and 2 of both days
BlankRow(n) == [i \in 1..n |-> <<>>]
LobbyRow(cells) ==
  [i \in 1..36 |-> IF i \in DOMAIN cells THEN cells[i] ELSE <<>>]
LobbiesSheet(v) ==
  << BlankRow(1), BlankRow(1), BlankRow(1), BlankRow(1),
     LobbyRow((1 :> <<"a">>) @@ (6 :> <<"b">> \o Str(v)) @@ (31 :> <<" ","c"," ">>)
              @@ (36 :> <<"d">>)),
     LobbyRow((1 :> <<"e">>) @@ (31 :> <<"f">> \o Str(v))) >>

LobbiesResponses(v) == { FetchError, Fetched(LobbiesSheet(v)) }

-----------------------------------------------------------------------------
(* The server: refresh cycles, part_000 lines 341-351 and 443-452, and the   *)
(* request handlers.  One action is one turn of the event loop.              *)

MaxCycles == 2        \* calls of syncAllData modelled: the startup call and ticks

Cycles == 1..MaxCycles
Pipelines == {"players", "leaderboard", "leaderboard2", "lobbies"}

NoReply == [route |-> "none"]
NoEntry == [fn |-> "none"]

\* the module-level state after the file has been evaluated: the caches of
\* lines 116-123, cron scheduled (line 351), start() called (line 452), which
\* has called syncAllData(): the four fetches of cycle 1 are in flight
ServerInit ==
  /\ playersCache = <<>>
  /\ leaderboardCache = <<>>
  /\ leaderboard2Cache = <<>>
  /\ lobbiesData = [day1 |-> Null, day2 |-> Null]
  /\ lastUpdated = 0
  /\ cycle = [c \in Cycles |-> IF c = 1 THEN "running" ELSE "notStarted"]
  /\ pipe = [c \in Cycles |-> [p \in Pipelines |-> IF c = 1 THEN "pending" ELSE "idle"]]
  /\ listening = FALSE
  /\ reply = NoReply

CmpIdle == entryA = NoEntry /\ entryB = NoEntry /\ cres = [fn |-> "none"]

Init == build = "part_000" /\ ServerInit /\ CmpIdle

\* a handler sends its response in the turn in which it runs: a turn begins
\* once the response of the turn before is out
TurnBegins == reply = NoReply

\* how a sync function ended: it reached its cache assignment, or it did not
Outcome(assigned) == IF assigned THEN "ok" ELSE "failed"

\* a cron tick (every 30 s): cron calls syncAllData(), which calls the four sync
\* functions; each runs to its await axios.get(...)
CronTick ==
  /\ TurnBegins
  /\ \E c \in Cycles :
       /\ cycle[c] = "notStarted"
       /\ \A d \in 1..(c - 1) : cycle[d] # "notStarted"
       /\ cycle' = [cycle EXCEPT ![c] = "running"]
       /\ pipe' = [pipe EXCEPT ![c] = [p \in Pipelines |-> "pending"]]
  /\ UNCHANGED <<build, caches, lastUpdated, listening, reply, cmpVars>>

\* Promise.race in place of Promise.allSettled: settled with the first promise
raceSettled(statuses) == \E p \in Pipelines : statuses[p] \in {"ok", "failed"}

\* Promise.allSettled([...]) is settled: no promise of the call is pending
allSettled(statuses) == \A p \in Pipelines : statuses[p] \in {"ok", "failed"}

\* the heartbeat set only when no promise reports a failure
heartbeatIfAllOk(stamp, statuses) ==
  IF \E p \in Pipelines : statuses[p] = "failed" THEN stamp ELSE stamp + 1

\* await Promise.allSettled([...]); lastUpdated = new Date(): allSettled never
\* rejects, so whatever the outcomes the heartbeat is set to the present
\* instant, which is later than the instant it held
heartbeatAfter(stamp, statuses) == stamp + 1

\* the promise of pipeline p of cycle c settles.  Once no promise of the call
\* is pending, syncAllData resumes behind its await, in the same turn of the
\* event loop (promise reactions are microtasks), and sets the heartbeat.
syncAllDataResumes(c, p, outcome) ==
  LET statuses == [pipe[c] EXCEPT ![p] = outcome]
  IN  /\ pipe' = [pipe EXCEPT ![c] = statuses]
      /\ IF allSettled(statuses)
         THEN /\ lastUpdated' = heartbeatAfter(lastUpdated, statuses)
              /\ cycle' = [cycle EXCEPT ![c] = "joined"]
         ELSE UNCHANGED <<lastUpdated, cycle>>

\* the fetch of syncPlayersData of cycle c ends and the function runs to its end
PlayersFetched(c) ==
  /\ TurnBegins
  /\ pipe[c]["players"] = "pending"
  /\ \E resp \in PlayersResponses(c) :
       LET run == syncPlayersData(playersCache, resp)
       IN  /\ playersCache' = run.cache
           /\ syncAllDataResumes(c, "players", Outcome(run.assigned))
  /\ UNCHANGED <<build, leaderboardCache, leaderboard2Cache, lobbiesData,
                 listening, reply, cmpVars>>

\* the pipelines awaited one after the other: the leaderboard fetch is issued
\* only when syncPlayersData of the cycle has ended
LeaderboardFetchedAfterPlayers(c) ==
  /\ TurnBegins
  /\ pipe[c]["players"] # "pending"
  /\ pipe[c]["leaderboard"] = "pending"
  /\ \E resp \in LeaderboardResponses(1, c) :
       LET run == syncLeaderboardData(build, leaderboardCache, resp)
       IN  /\ leaderboardCache' = run.cache
           /\ syncAllDataResumes(c, "leaderboard", Outcome(run.assigned))
  /\ UNCHANGED <<build, playersCache, leaderboard2Cache, lobbiesData,
                 listening, reply, cmpVars>>

LeaderboardFetched(c) ==
  /\ TurnBegins
  /\ pipe[c]["leaderboard"] = "pending"
  /\ \E resp \in LeaderboardResponses(1, c) :
       LET run == syncLeaderboardData(build, leaderboardCache, resp)
       IN  /\ leaderboardCache' = run.cache
           /\ syncAllDataResumes(c, "leaderboard", Outcome(run.assigned))
  /\ UNCHANGED <<build, playersCache, leaderboard2Cache, lobbiesData,
                 listening, reply, cmpVars>>

Leaderboard2Fetched(c) ==
  /\ TurnBegins
  /\ pipe[c]["leaderboard2"] = "pending"
  /\ \E resp \in LeaderboardResponses(2, c) :
       LET run == syncLeaderboardData(build, leaderboard2Cache, resp)
       IN  /\ leaderboard2Cache' = run.cache
           /\ syncAllDataResumes(c, "leaderboard2", Outcome(run.assigned))
  /\ UNCHANGED <<build, playersCache, leaderboardCache, lobbiesData,
                 listening, reply, cmpVars>>

LobbiesFetched(c) ==
  /\ TurnBegins
  /\ pipe[c]["lobbies"] = "pending"
  /\ \E resp \in LobbiesResponses(c) :
       LET run == syncLobbiesData(lobbiesData, resp)
       IN  /\ lobbiesData' = run.cache
           /\ syncAllDataResumes(c, "lobbies", Outcome(run.assigned))
  /\ UNCHANGED <<build, playersCache, leaderboardCache, leaderboard2Cache,
                 listening, reply, cmpVars>>

\* start() calling server.listen without awaiting syncAllData()
ListenWithoutAwait ==
  /\ TurnBegins
  /\ ~listening
  /\ listening' = TRUE
  /\ UNCHANGED <<build, caches, lastUpdated, cycle, pipe, reply, cmpVars>>

\* start() resumes after await syncAllData() and calls server.listen
Listen ==
  /\ TurnBegins
  /\ cycle[1] = "joined"
  /\ ~listening
  /\ listening' = TRUE
  /\ UNCHANGED <<build, caches, lastUpdated, cycle, pipe, reply, cmpVars>>

Refresh ==
  \/ CronTick
  \/ \E c \in Cycles : PlayersFetched(c)
  \/ \E c \in Cycles : LeaderboardFetched(c)
  \/ \E c \in Cycles : Leaderboard2Fetched(c)
  \/ \E c \in Cycles : LobbiesFetched(c)
  \/ Listen

\* The requests the model sends.  Handlers contain no await: each runs in one
\* turn of the event loop, once the server listens.
ListQueries == { NoQuery, [NoQuery EXCEPT !.sortBy = "total", !.order = "asc"] }
SearchQueries == { [NoQuery EXCEPT !.name = <<"A">>, !.minPoint = <<"1","6">>],
                   [NoQuery EXCEPT !.name = <<"3">>] }
PlayerQueries == { NoQuery, [NoQuery EXCEPT !.q = <<"p">>] }
DayParams == { <<"1">>, <<"2">>, <<"3">> }

GetHealth ==
  /\ TurnBegins /\ listening
  /\ reply' = healthReply(lastUpdated)
  /\ UNCHANGED <<build, caches, lastUpdated, cycle, pipe, listening, cmpVars>>

GetTopPerformers ==
  /\ TurnBegins /\ listening
  /\ reply' = topPerformersReply(leaderboardCache, leaderboard2Cache, lastUpdated)
  /\ UNCHANGED <<build, caches, lastUpdated, cycle, pipe, listening, cmpVars>>

GetPlayers ==
  /\ TurnBegins /\ listening
  /\ \E query \in PlayerQueries : reply' = playersReply(playersCache, query)
  /\ UNCHANGED <<build, caches, lastUpdated, cycle, pipe, listening, cmpVars>>

\* paginateAndSort receives the cache array itself: the array is afterwards
\* what the call left of it
GetLeaderboard ==
  /\ TurnBegins /\ listening
  /\ \E query \in ListQueries :
       LET page == paginateAndSort(build, leaderboardCache, query)
       IN  /\ reply' = leaderboardReply("leaderboard", page)
           /\ leaderboardCache' = page.arg
  /\ UNCHANGED <<build, playersCache, leaderboard2Cache, lobbiesData,
                 lastUpdated, cycle, pipe, listening, cmpVars>>

GetLeaderboard2 ==
  /\ TurnBegins /\ listening
  /\ \E query \in ListQueries :
       LET page == paginateAndSort(build, leaderboard2Cache, query)
       IN  /\ reply' = leaderboardReply("leaderboard2", page)
           /\ leaderboard2Cache' = page.arg
  /\ UNCHANGED <<build, playersCache, leaderboardCache, lobbiesData,
                 lastUpdated, cycle, pipe, listening, cmpVars>>

\* the search handlers pass the cache itself when no filter applies, and a
\* filtered copy (Array.filter) otherwise
SearchLeaderboard ==
  /\ TurnBegins /\ listening
  /\ \E query \in SearchQueries :
       LET filtered == Truthy(query.name) \/ Truthy(query.minPoint)
           page == paginateAndSort(build, searchFilter(leaderboardCache, query), query)
       IN  /\ reply' = leaderboardReply("leaderboard/search", page)
           /\ leaderboardCache' = IF filtered THEN leaderboardCache ELSE page.arg
  /\ UNCHANGED <<build, playersCache, leaderboard2Cache, lobbiesData,
                 lastUpdated, cycle, pipe, listening, cmpVars>>

SearchLeaderboard2 ==
  /\ TurnBegins /\ listening
  /\ \E query \in SearchQueries :
       LET filtered == Truthy(query.name) \/ Truthy(query.minPoint)
           page == paginateAndSort(build, searchFilter(leaderboard2Cache, query), query)
       IN  /\ reply' = leaderboardReply("leaderboard2/search", page)
           /\ leaderboard2Cache' = IF filtered THEN leaderboard2Cache ELSE page.arg
  /\ UNCHANGED <<build, playersCache, leaderboardCache, lobbiesData,
                 lastUpdated, cycle, pipe, listening, cmpVars>>

GetLobbies ==
  /\ TurnBegins /\ listening
  /\ \E day \in DayParams : reply' = lobbiesReply(lobbiesData, day)
  /\ UNCHANGED <<build, caches, lastUpdated, cycle, pipe, listening, cmpVars>>

\* the response has been written to the socket
Respond ==
  /\ reply # NoReply
  /\ reply' = NoReply
  /\ UNCHANGED <<build, caches, lastUpdated, cycle, pipe, listening, cmpVars>>

Request ==
  \/ Respond
  \/ GetHealth
  \/ GetTopPerformers
  \/ GetPlayers
  \/ GetLeaderboard
  \/ GetLeaderboard2
  \/ SearchLeaderboard
  \/ SearchLeaderboard2
  \/ GetLobbies

Next == Refresh \/ Request

Spec == Init /\ [][Next]_vars

\* start() is an async function: once `await syncAllData()` has settled, its
\* continuation (server.listen) is a job of the event loop and is run
SpecStart == Spec /\ WF_vars(Listen)

-----------------------------------------------------------------------------
(* Claims on the refresh cycles and the request handlers, checked under Spec *)

\* the cache variable pipeline p assigns
CacheOf(p) ==
  CASE p = "players" -> playersCache
    [] p = "leaderboard" -> leaderboardCache
    [] p = "leaderboard2" -> leaderboard2Cache
    [] p = "lobbies" -> lobbiesData

InitialSnapshot(p) == IF p = "lobbies" THEN [day1 |-> Null, day2 |-> Null] ELSE <<>>

\* what the pipelines compute from each version of their sheets
FreshPlayers ==
  SubSeq([c \in Cycles |-> syncPlayersData(<<>>, Fetched(PlayersSheet(c))).cache],
         1, MaxCycles)
FreshBoard(bld, board) ==
  SubSeq([c \in Cycles |->
            parseLeaderboard(bld, Fetched(LeaderboardSheet(board, c))).value],
         1, MaxCycles)
FreshLeaderboard == [bld \in Builds |-> FreshBoard(bld, 1)]
FreshLeaderboard2 == [bld \in Builds |-> FreshBoard(bld, 2)]
FreshLobbies ==
  SubSeq([c \in Cycles |->
            [day1 |-> Some(parseDay(LobbiesSheet(c), 0, 1)),
             day2 |-> Some(parseDay(LobbiesSheet(c), DAY2_START_COL, 2))]],
         1, MaxCycles)

\* what pipeline p computes from version c of its sheet
FreshSnapshot(p, c) ==
  CASE p = "players" -> FreshPlayers[c]
    [] p = "leaderboard" -> FreshLeaderboard[build][c]
    [] p = "leaderboard2" -> FreshLeaderboard2[build][c]
    [] p = "lobbies" -> FreshLobbies[c]

Failed(statuses) == {p \in Pipelines : statuses[p] = "failed"}
Settled(statuses) == \A p \in Pipelines : statuses[p] \in {"ok", "failed"}
JoinedCycles == {c \in Cycles : cycle[c] = "joined"}

\* one step, seen from each cycle: a pipeline that ends well has installed its
\* snapshot; a cycle that ends with one failed pipeline has moved the heartbeat
C1_Step ==
  \A c \in Cycles :
    /\ \A p \in Pipelines :
         (pipe[c][p] = "pending" /\ pipe'[c][p] = "ok")
           => CacheOf(p)' = FreshSnapshot(p, c)
    /\ (cycle[c] = "running" /\ cycle'[c] = "joined"
          /\ Cardinality(Failed(pipe'[c])) = 1)
         => lastUpdated' > lastUpdated

\* C1: in a refresh cycle in which a pipeline fails, every other pipeline that
\* completes still installs the snapshot it computed from its own sheet, and
\* when the cycle ends with exactly one failed pipeline the heartbeat advances
\* in that step.
C1_OneFailureIsolated == [][C1_Step]_vars

\* cycle 1 ended with the players fetch failed: the three other pipelines have
\* installed their snapshots and the heartbeat has advanced
C1_Witness ==
  /\ cycle[1] = "joined" /\ cycle[2] = "notStarted"
  /\ Failed(pipe[1]) = {"players"}
  /\ playersCache = <<>>
  /\ \A p \in Pipelines \ {"players"} : CacheOf(p) = FreshSnapshot(p, 1)
  /\ lastUpdated = 1

\* one step in which a pipeline of some cycle ends in failure
C2_Step ==
  \A c \in Cycles : \A p \in Pipelines :
    (pipe[c][p] = "pending" /\ pipe'[c][p] = "failed") => UNCHANGED caches

\* C2: the step in which a pipeline fails (its fetch throws, its grid is empty
\* or has no header row, or its row mapping throws) changes no cache: the
\* snapshot of its data set is neither cleared nor partly replaced.
C2_FailureKeepsSnapshot == [][C2_Step]_vars

\* in cycle 2 the leaderboard and the lobby pipelines have failed and both
\* data sets still hold the snapshots of cycle 1
C2_Witness ==
  /\ pipe[2]["leaderboard"] = "failed" /\ pipe[2]["lobbies"] = "failed"
  /\ pipe[1]["leaderboard"] = "ok" /\ pipe[1]["lobbies"] = "ok"
  /\ leaderboardCache = FreshSnapshot("leaderboard", 1)
  /\ leaderboardCache # <<>>
  /\ lobbiesData = FreshSnapshot("lobbies", 1)

\* C3: at most one call of syncAllData is in flight.
C3_NoOverlap == Cardinality({c \in Cycles : cycle[c] = "running"}) <= 1

\* the whole snapshots a data set can hold, and a list without its positions
Range(s) == {s[i] : i \in DOMAIN s}
Snapshots(p) == {InitialSnapshot(p)} \cup {FreshSnapshot(p, c) : c \in Cycles}
Unranked(list) == {[e EXCEPT !.position = <<>>] : e \in Range(list)}

C4_Whole ==
  /\ \A p \in Pipelines : CacheOf(p) \in Snapshots(p)
  /\ (reply.route = "lobbies" /\ reply.code = 200)
       => \E s \in Snapshots("lobbies") : reply.data \in {s.day1, s.day2}
  /\ reply.route = "players"
       => \E s \in Snapshots("players") : Range(reply.data) \subseteq Range(s)
  /\ reply.route \in {"leaderboard", "leaderboard/search"}
       => \E s \in Snapshots("leaderboard") : Unranked(reply.data) \subseteq Unranked(s)
  /\ reply.route \in {"leaderboard2", "leaderboard2/search"}
       => \E s \in Snapshots("leaderboard2") : Unranked(reply.data) \subseteq Unranked(s)

C4_OnlyOwn ==
  \A p \in Pipelines :
    CacheOf(p)' # CacheOf(p) => \A q \in Pipelines \ {p} : CacheOf(q)' = CacheOf(q)

\* C4: each cache holds a whole snapshot (the initial one or what one cycle
\* computed; for the lobbies both trees of the same cycle), what a handler
\* sends is taken from one whole snapshot, and a step that replaces the
\* snapshot of one data set leaves the three other caches as they were.
C4_AtomicSwap == [](C4_Whole) /\ [][C4_OnlyOwn]_vars

\* a request served while cycle 2 is in flight, with leaderboard 1 already
\* replaced by cycle 2 and leaderboard 2 still the snapshot of cycle 1
C4_Witness ==
  /\ cycle[2] = "running"
  /\ leaderboardCache = FreshSnapshot("leaderboard", 2)
  /\ leaderboard2Cache = FreshSnapshot("leaderboard2", 1)
  /\ lobbiesData = FreshSnapshot("lobbies", 2)
  /\ reply.route = "leaderboard2" /\ Len(reply.data) = 3

\* one step in which a handler sends a response
C6_Step == (reply' # reply /\ reply' # NoReply) => UNCHANGED caches

\* C6: a step in which a handler sends a response (listing, search, players,
\* top-performers, lobbies, health, with any of the parameters sent) changes no
\* cache: entries, their order and their position labels stay as they were.
C6_QueriesReadOnly == [][C6_Step]_vars

\* a listing sorted ascending has been sent: its entries are not in the order
\* of the cache, which still is the snapshot of cycle 1
C6_Witness ==
  /\ reply.route = "leaderboard" /\ Len(reply.data) = 3
  /\ \E i \in 1..3 : reply.data[i].name # leaderboardCache[i].name
  /\ leaderboardCache = FreshSnapshot("leaderboard", 1)

\* C7: the heartbeat has advanced once for each call of syncAllData that has
\* ended and for no other reason, and a call has ended exactly when each of its
\* pipelines has reached an outcome, whatever the outcomes.
C7_HeartbeatOncePerCycle ==
  /\ lastUpdated = Cardinality(JoinedCycles)
  /\ \A c \in Cycles : cycle[c] = "joined" <=> Settled(pipe[c])

\* cycle 1 has ended with its four pipelines failed and the heartbeat has advanced
C7_Witness ==
  /\ cycle[1] = "joined" /\ cycle[2] = "notStarted"
  /\ Failed(pipe[1]) = Pipelines
  /\ lastUpdated = 1

\* every endpoint other than the lobbies endpoint has answered with success
OthersSucceed ==
  /\ reply.route \in {"players", "leaderboard", "leaderboard2", "leaderboard/search",
                      "leaderboard2/search", "top-performers"} => reply.success
  /\ reply.route = "health" => reply.status = "ok"

\* C16: in every cache state in which the server serves, every endpoint other
\* than the lobbies endpoint answers with success, and a lobbies request with
\* day "1" or "2" is answered with success, never with the not-found failure.
C16_OnlyInvalidDayFails ==
  /\ OthersSucceed
  /\ listening =>
       \A day \in {<<"1">>, <<"2">>} : lobbiesReply(lobbiesData, day).success

\* the part of C16 that the code keeps: the endpoints other than lobbies succeed
\* in every cache state, and the valid lobby days succeed once a lobbies sync
\* has succeeded
C16_SuccessOnceLoaded ==
  /\ OthersSucceed
  /\ (listening /\ \E c \in Cycles : pipe[c].lobbies = "ok") =>
       \A day \in {<<"1">>, <<"2">>} : lobbiesReply(lobbiesData, day).success

\* no request is served before the first cycle has ended with an outcome for
\* each of its pipelines
ServedAfterFirstCycle ==
  /\ listening => (cycle[1] = "joined" /\ Settled(pipe[1]))
  /\ reply # NoReply => listening

\* after a first cycle in which every pipeline failed, and before any later
\* cycle, the snapshots are the empty ones and the listings served are empty
ServesEmptySnapshots ==
  (listening /\ Failed(pipe[1]) = Pipelines /\ cycle[2] = "notStarted") =>
    /\ \A p \in Pipelines : CacheOf(p) = InitialSnapshot(p)
    /\ reply.route \in {"players", "leaderboard", "leaderboard2"} =>
         (reply.success /\ reply.data = <<>> /\ reply.meta.total = 0)

\* C17: no request is served before the first refresh cycle has completed, and
\* once the first cycle has completed the server starts listening, also when
\* every pipeline of it failed, and then serves the empty snapshots.
C17_ListenAfterFirstCycle ==
  /\ [](ServedAfterFirstCycle /\ ServesEmptySnapshots)
  /\ (cycle[1] = "joined") ~> listening

\* C17 witness: every pipeline of the first cycle failed, the server listens
\* and has served the empty leaderboard
C17_Witness ==
  /\ listening
  /\ Failed(pipe[1]) = Pipelines
  /\ cycle[2] = "notStarted"
  /\ reply.route = "leaderboard" /\ reply.data = <<>>

\* the fetch of pipeline p of cycle c has not completed
SlowFetch(c, p) == cycle[c] = "running" /\ pipe[c][p] = "pending"

\* the completion of the fetch of pipeline q of cycle c can be processed
CanComplete(c, q) ==
  CASE q = "players" -> ENABLED PlayersFetched(c)
    [] q = "leaderboard" -> ENABLED LeaderboardFetched(c)
    [] q = "leaderboard2" -> ENABLED Leaderboard2Fetched(c)
    [] q = "lobbies" -> ENABLED LobbiesFetched(c)

\* a request can be served (the handlers share their guard; GET /health is
\* the one of them that reads no cache)
CanServe == ENABLED GetHealth

\* while the fetch of some pipeline of cycle c is pending, at the beginning of a
\* turn, the completion of each other pending fetch of the cycle can be processed
SiblingsNotBlocked ==
  \A c \in Cycles, q \in Pipelines :
    (/\ TurnBegins
     /\ pipe[c][q] = "pending"
     /\ \E p \in Pipelines \ {q} : SlowFetch(c, p)) => CanComplete(c, q)

\* a step in which a sibling q ends well while the fetch of p stays pending
\* installs the snapshot of q and leaves the data set of p as it was
SiblingInstalls ==
  \A c \in Cycles, p \in Pipelines, q \in Pipelines :
    (/\ q # p
     /\ SlowFetch(c, p) /\ pipe'[c][p] = "pending"
     /\ pipe[c][q] = "pending" /\ pipe'[c][q] = "ok")
      => (CacheOf(q)' = FreshSnapshot(q, c) /\ CacheOf(p)' = CacheOf(p))

\* C20 as stated: while a fetch is pending the siblings of its cycle install
\* their snapshots, its own data set stays as it was, and requests are served.
C20_Original ==
  /\ [](SiblingsNotBlocked)
  /\ [][SiblingInstalls]_vars
  /\ [](\A c \in Cycles, p \in Pipelines : (SlowFetch(c, p) /\ TurnBegins) => CanServe)

\* C20 amended: while a fetch is pending the siblings of its cycle install their
\* snapshots and its own data set stays as it was; requests are served meanwhile
\* once the server listens; while a fetch of the startup cycle is pending the
\* server does not listen and no request is served.
C20_Amended ==
  /\ [](SiblingsNotBlocked)
  /\ [][SiblingInstalls]_vars
  /\ [](\A c \in Cycles, p \in Pipelines :
          (SlowFetch(c, p) /\ TurnBegins /\ listening) => CanServe)
  /\ [](\A p \in Pipelines : SlowFetch(1, p) => (~listening /\ ~CanServe))

\* C20 witness: the players fetch of cycle 2 is still pending, its three
\* siblings have installed their snapshots of cycle 2, the players data are
\* those of cycle 1, and a leaderboard request has been served meanwhile
C20_Witness ==
  /\ SlowFetch(2, "players")
  /\ \A q \in Pipelines \ {"players"} :
       pipe[2][q] = "ok" /\ CacheOf(q) = FreshSnapshot(q, 2)
  /\ pipe[1]["players"] = "ok" /\ playersCache = FreshSnapshot("players", 1)
  /\ listening
  /\ reply.route = "leaderboard" /\ reply.data = leaderboardCache

\* a step in which pipeline p of cycle c installs its snapshot although the
\* snapshot of a later cycle of the same pipeline is installed already
StaleInstall(c, p) ==
  /\ pipe[c][p] = "pending" /\ pipe'[c][p] = "ok"
  /\ \E d \in Cycles : d > c /\ pipe[d][p] = "ok"

\* C23: the result of a fetch issued in an earlier cycle is never installed over
\* the result of a fetch of the same data set issued in a later cycle.
C23_NoStaleOverwrite ==
  [][\A c \in Cycles, p \in Pipelines : ~StaleInstall(c, p)]_vars

\* the same read on states: when both cycles have joined and the later one
\* installed the data set of pipeline p, the cache holds the later cycle's data
C23_NewestSnapshotStays ==
  \A p \in Pipelines :
    (cycle[2] = "joined" /\ pipe[2][p] = "ok" /\ cycle[1] = "joined")
      => CacheOf(p) = FreshSnapshot(p, 2)

-----------------------------------------------------------------------------
(* Inputs of the ranking engine checks *)

NumSlots == 6            \* matches: [m1 .. m6]
MaxPlacement == 8        \* placements 1..8, 0 = absent
MaxPlayed == 2           \* generated entries have played at most this many rounds
MaxAgg == 2              \* generated aggregates range over 0..MaxAgg

\* a placement sequence of k rounds padded with zeros to the six slots
Pad(s) == [i \in 1..NumSlots |-> IF i <= Len(s) THEN s[i] ELSE 0]

\* the placement sequences of the examples of the specification (section 8)
ExampleMatches ==
  { <<1,1,2,2,0,0>>, <<2,3,4,5,0,0>>,
    <<1,2,3,4,5,6>>, <<2,1,3,4,5,6>>,
    <<0,0,2,0,0,0>>, <<3,0,0,0,0,0>> }

GeneratedMatches ==
  { Pad(s) : s \in [1..MaxPlayed -> 0..MaxPlacement] }

\* opponents: the examples and a few short records
OpponentMatches ==
  ExampleMatches \cup
  { <<0,0,0,0,0,0>>, <<2,0,0,0,0,0>>, <<1,2,0,0,0,0>>, <<5,4,0,0,0,0>> }

MkEntry(m, tot, tp) ==
  [position |-> <<>>, prize |-> <<>>, name |-> <<"p">>,
   matches |-> m, total |-> tot, totalPoint |-> tp]

CmpEntriesA ==
  { MkEntry(m, tot, tp) :
      m \in GeneratedMatches \cup ExampleMatches, tot \in 0..MaxAgg, tp \in 0..MaxAgg }

CmpEntriesB == { MkEntry(m, 1, 1) : m \in OpponentMatches }

NoCall == [fn |-> "none"]

InitCmp ==
  /\ build \in Builds
  /\ ServerInit
  /\ entryA \in CmpEntriesA
  /\ entryB \in CmpEntriesB
  /\ cres = NoCall

\* comparePlayers(entryA, entryB, sortBy), as sortLeaderboardDefault and the tests call it
CallComparePlayers ==
  /\ build = "part_000"
  /\ \E sortBy \in SortKeys :
       cres' = [fn |-> "comparePlayers", sortBy |-> sortBy, order |-> "desc",
                res |-> comparePlayers(entryA, entryB, sortBy)]
  /\ UNCHANGED <<build, serverVars, entryA, entryB>>

\* the sort callback of paginateAndSort on (entryA, entryB)
CallSortCallback ==
  /\ \E sortBy \in SortKeys, order \in Orders :
       cres' = [fn |-> "sortCallback", sortBy |-> sortBy, order |-> order,
                res |-> sortCallback(build, entryA, entryB, sortBy, order)]
  /\ UNCHANGED <<build, serverVars, entryA, entryB>>

NextCmp == CallComparePlayers \/ CallSortCallback

SpecCmp == InitCmp /\ [][NextCmp]_vars

-----------------------------------------------------------------------------
(* Claims on the ranking engine, checked under SpecCmp *)

Sign(x) == IF x > 0 THEN 1 ELSE IF x < 0 THEN -1 ELSE 0

\* number of slots of m holding a value of set V, by a walk over the slots
RECURSIVE Tally(_, _, _)
Tally(m, V, i) ==
  IF i > Len(m) THEN 0
  ELSE (IF m[i] \in V THEN 1 ELSE 0) + Tally(m, V, i + 1)

\* the last non-zero placement by a walk from the last slot, 9 when there is none
RECURSIVE LastNonZero(_, _)
LastNonZero(m, i) ==
  IF i = 0 THEN 9 ELSE IF m[i] # 0 THEN m[i] ELSE LastNonZero(m, i - 1)

\* The reference cascade as one key vector per entry, smaller vector first:
\* (1) primary, (2) other aggregate, (3) weighted score, (4) counts of rank 1..8,
\* all descending, then (5) the last non-zero placement ascending.
RefVector(e, key) ==
  LET other == IF key = "total" THEN "totalPoint" ELSE "total"
  IN  << -e[key], -e[other],
         -(2 * Tally(e.matches, {1}, 1) + Tally(e.matches, 1..4, 1)) >>
      \o [r \in 1..8 |-> -Tally(e.matches, {r}, 1)]
      \o << LastNonZero(e.matches, Len(e.matches)) >>

RECURSIVE LexSign(_, _, _)
LexSign(u, v, i) ==
  IF i > Len(u) THEN 0
  ELSE IF u[i] # v[i] THEN Sign(u[i] - v[i])
  ELSE LexSign(u, v, i + 1)

RefSign(a, b, key) == LexSign(RefVector(a, key), RefVector(b, key), 1)

\* C8: for every pair of entries and either primary key the sign of
\* comparePlayers(a, b, key) is the sign given by the first discriminating level
\* of the reference cascade, and it is 0 only when all five levels tie.
C8_ComparatorIsCascade ==
  cres.fn = "comparePlayers" =>
    /\ Sign(cres.res) = RefSign(entryA, entryB, cres.sortBy)
    /\ (cres.res = 0 <=> RefVector(entryA, cres.sortBy) = RefVector(entryB, cres.sortBy))

\* C8 witness: a pair tied through level 4 that the last placement decides
C8_Witness ==
  /\ cres.fn = "comparePlayers"
  /\ comparePlayersAt(entryA, entryB, cres.sortBy).level = 5
  /\ cres.res < 0

\* C9: with order = "asc" the sort callback returns the exact negation of what it
\* returns with order = "desc", for every pair and either key, whichever level of
\* the cascade decides the pair.
C9_AscNegatesDesc ==
  (cres.fn = "sortCallback" /\ cres.order = "asc") =>
    cres.res = -sortCallback(build, entryA, entryB, cres.sortBy, "desc")

\* C9 witness: an ascending comparison of a pair tied on the primary key and
\* decided by a tie-break level, with a non-zero result
C9_Witness ==
  /\ build = "part_000"
  /\ cres.fn = "sortCallback" /\ cres.order = "asc"
  /\ entryA[cres.sortBy] = entryB[cres.sortBy]
  /\ comparePlayersAt(entryA, entryB, cres.sortBy).level >= 3
  /\ cres.res # 0

\* the pair of the level-4 example, tied on both aggregates
IsLevel4Example ==
  /\ cres.fn = "comparePlayers"
  /\ entryA.matches = <<1,2,3,4,5,6>> /\ entryB.matches = <<2,1,3,4,5,6>>
  /\ entryA.total = entryB.total /\ entryA.totalPoint = entryB.totalPoint

\* C10 as stated: the pair [1,2,3,4,5,6] / [2,1,3,4,5,6] ties on the rank-1
\* counts and is discriminated at level 4 by the rank-2 counts (non-zero result).
C10_Original ==
  IsLevel4Example =>
    /\ CountRank(entryA.matches, 1) = CountRank(entryB.matches, 1)
    /\ CountRank(entryA.matches, 2) # CountRank(entryB.matches, 2)
    /\ comparePlayersAt(entryA, entryB, cres.sortBy).level = 4
    /\ cres.res # 0

\* C10 amended: the pair holds the same placements in another order, so it ties
\* on the rank-1 counts, on the rank-2 counts and on every other rank count;
\* level 4 does not discriminate it, level 5 ties too (last placement 6 for
\* both) and the comparator returns 0.
C10_Amended ==
  IsLevel4Example =>
    /\ getScoreTB2(entryA.matches) = getScoreTB2(entryB.matches)
    /\ \A r \in 1..MaxPlacement : CountRank(entryA.matches, r) = CountRank(entryB.matches, r)
    /\ comparePlayersAt(entryA, entryB, cres.sortBy).level = 5
    /\ cres.res = 0

\* C10 witness: comparePlayers has been called on the example pair
C10_Witness == IsLevel4Example

\* the pair of the level-5 example, tied on both aggregates
IsLevel5Example ==
  /\ cres.fn = "comparePlayers"
  /\ entryA.matches = <<0,0,2,0,0,0>> /\ entryB.matches = <<3,0,0,0,0,0>>
  /\ entryA.total = entryB.total /\ entryA.totalPoint = entryB.totalPoint

\* a pair that comparePlayers found tied through level 4
TiedThroughLevel4 ==
  /\ cres.fn = "comparePlayers"
  /\ comparePlayersAt(entryA, entryB, cres.sortBy).level = 5

\* C11 as stated: a pair tied through level 4 is ordered by the most recent
\* non-zero placement, smaller first (9 when there is none), and the pair
\* [0,0,2,0,0,0] / [3,0,0,0,0,0] is tied through level 4 and ordered by level 5.
C11_Original ==
  /\ TiedThroughLevel4 =>
        cres.res = LastNonZero(entryA.matches, NumSlots)
                   - LastNonZero(entryB.matches, NumSlots)
  /\ IsLevel5Example =>
        /\ comparePlayersAt(entryA, entryB, cres.sortBy).level = 5
        /\ cres.res < 0

\* C11 amended: a pair tied through level 4 is ordered by the most recent
\* non-zero placement, smaller first (9 when there is none); the pair
\* [0,0,2,0,0,0] / [3,0,0,0,0,0] ties through level 3 only (weighted score 1
\* for both) and the first ranks higher at level 4 already, by its one rank-2
\* finish against none.
C11_Amended ==
  /\ TiedThroughLevel4 =>
        cres.res = LastNonZero(entryA.matches, NumSlots)
                   - LastNonZero(entryB.matches, NumSlots)
  /\ IsLevel5Example =>
        /\ getScoreTB2(entryA.matches) = getScoreTB2(entryB.matches)
        /\ CountRank(entryA.matches, 1) = CountRank(entryB.matches, 1)
        /\ CountRank(entryA.matches, 2) > CountRank(entryB.matches, 2)
        /\ comparePlayersAt(entryA, entryB, cres.sortBy).level = 4
        /\ cres.res < 0

\* C11 witness: comparePlayers has been called on the level-5 example pair
C11_Witness == IsLevel5Example /\ cres.res < 0

-----------------------------------------------------------------------------
(* The leaderboard pipeline on its own: syncLeaderboardData is called again  *)
(* and again, in either build, on responses drawn from a family of sheets    *)
(* whose rows carry arbitrary positions and come in every order.             *)

MaxRows == 3          \* data rows of a generated sheet

\* p1 and p2 tie through level 4 and differ at level 5; p4 ties with them on
\* totalPoint and leads on total; p3 leads on totalPoint
SyncRows ==
  { LbRow(<<"7">>, <<"p","1">>, <<1,2,0,0,0,0>>, 3, 15),
    LbRow(<<>>, <<"p","2">>, <<2,1,0,0,0,0>>, 3, 15),
    LbRow(<<"1">>, <<" ","p","3">>, <<3,0,0,0,0,0>>, 1, 16),
    LbRow(<<"2">>, <<"p","4">>, <<1,1,0,0,0,0>>, 4, 15) }

\* the sequences of 1..MaxRows distinct rows
Arrangements ==
  UNION { { s \in [1..n -> SyncRows] : \A i, j \in 1..n : i # j => s[i] # s[j] }
          : n \in 1..MaxRows }

SyncResponses ==
  { FetchError, Fetched(EmptyGrid), Fetched(NoHeaderGrid), Fetched(ShortRowGrid) }
  \cup { Fetched(<<LbHeader>> \o s) : s \in Arrangements }

InitSync ==
  /\ build \in Builds
  /\ ServerInit
  /\ CmpIdle

\* one run of syncLeaderboardData, from its fetch to its end
CallSyncLeaderboard ==
  /\ \E resp \in SyncResponses :
       LET run == syncLeaderboardData(build, leaderboardCache, resp)
       IN  /\ leaderboardCache' = run.cache
           /\ cres' = [fn |-> "syncLeaderboardData", resp |-> resp,
                       assigned |-> run.assigned]
  /\ UNCHANGED <<build, playersCache, leaderboard2Cache, lobbiesData, lastUpdated,
                 cycle, pipe, listening, reply, entryA, entryB>>

NextSync == CallSyncLeaderboard

SpecSync == InitSync /\ [][NextSync]_vars

\* C5: the cached leaderboard carries the positions "1".."N" in list order and
\* is in the order of the five-level cascade with primary key totalPoint,
\* whatever positions the sheet gave.
C5_CachedBoardRanked ==
  LET n == Len(leaderboardCache)
  IN  /\ \A i \in 1..n : leaderboardCache[i].position = toString(i)
      /\ \A i, j \in 1..n :
           i < j => RefSign(leaderboardCache[i], leaderboardCache[j], "totalPoint") <= 0

\* the same statement for the build of part_000 alone
C5_RankedInPart000 == build = "part_000" => C5_CachedBoardRanked

-----------------------------------------------------------------------------
(* The query layer on its own: the leaderboard is loaded from a sheet by     *)
(* syncLeaderboardData, in either build, and the handlers are then called on *)
(* it with queries drawn from pools.                                         *)

\* Leaderboard sheets: the rows of the example of section 8 (totalPoint 10, 60,
\* 80, 40) under sheet positions that are not their ranks, a row (Nab) tied with
\* BOB through level 4, and rows that are not player rows: a title line, padding
\* with a blank or empty name, a line that ends before the name column, a line
\* that ends at it, a player row whose M1 and Total cells are not numbers; a
\* sheet without the Prize, M3..M6 and Total columns; a sheet with two columns
\* headed M1
QuerySheets ==
  LET Ann == LbRow(<<"4">>, <<"A","n","n">>, <<5,0,0,0,0,0>>, 1, 10)
      Bob == LbRow(<<"2">>, <<"B","O","B">>, <<2,1,0,0,0,0>>, 6, 60)
      Bo == LbRow(<<"1">>, <<"b","o">>, <<1,0,0,0,0,0>>, 8, 80)
      Abe == LbRow(<<"3">>, <<"A","b","e">>, <<4,0,0,0,0,0>>, 4, 40)
      Nab == LbRow(<<"2">>, <<"N","a","b">>, <<1,2,0,0,0,0>>, 6, 60)
      TitleRow == << <<"V","L","V","N">> >>
      BlankNameRow == LbRow(<<"9">>, <<" "," ">>, <<0,0,0,0,0,0>>, 0, 0)
      EmptyNameRow == LbRow(<<>>, <<>>, <<0,0,0,0,0,0>>, 0, 0)
      ShortRow == << <<"9">>, <<"$">> >>
      NameOnlyRow == << <<"5">>, <<"$">>, <<" ","N","e","o"," ">> >>
      TextCellsRow ==
        << <<"6">>, <<"$">>, <<"T","e","a">>, <<"x">>, <<"2">>, <<>>, <<>>, <<>>, <<>>,
           <<"n","a">>, <<"7">> >>
      NarrowHeader ==
        << <<"P","o","s","i","t","i","o","n">>, <<"N","A","M","E">>, <<"M","1">>,
           <<"M","2">>, <<"T","o","t","a","l"," ","P","o","i","n","t">> >>
      TwiceM1Header == [LbHeader EXCEPT ![5] = <<"M","1">>]
  IN  { <<NarrowHeader,
          << <<"2">>, <<"A","n","n">>, <<"5">>, <<"0">>, <<"1","0">> >>,
          << <<"1">>, <<"b","o">>, <<"1">>, <<"0">>, <<"8","0">> >>,
          << <<"3">>, <<"B","O","B">>, <<"2">>, <<"1">>, <<"6","0">> >> >>,
        <<TwiceM1Header, Bob, Nab>>,
        <<TitleRow, LbHeader, Ann, BlankNameRow, Bob, EmptyNameRow, Bo>>,
        <<LbHeader, Ann, ShortRow, Bob>>,
        <<LbHeader, NameOnlyRow, TextCellsRow, Abe>>,
        <<LbHeader>>,
        <<LbHeader, Bo>>,
        <<LbHeader, Ann, Bob, Bo, Abe>>,
        <<LbHeader, Ann, Nab, Bob, Bo, Abe>>,
        <<LbHeader, Abe, Bob, Nab, Bo, Ann>> }

\* one run of syncLeaderboardData on a sheet of QuerySheets
LoadLeaderboard ==
  /\ cres = NoCall
  /\ \E resp \in {FetchError} \cup {Fetched(sheet) : sheet \in QuerySheets} :
       LET run == syncLeaderboardData(build, leaderboardCache, resp)
       IN  /\ leaderboardCache' = run.cache
           /\ cres' = [fn |-> "syncLeaderboardData", resp |-> resp,
                       assigned |-> run.assigned]
  /\ UNCHANGED <<build, playersCache, leaderboard2Cache, lobbiesData, lastUpdated,
                 cycle, pipe, listening, reply, entryA, entryB>>

\* queries of GET /api/leaderboard/search: filters, key and order, first page
SearchPool ==
  { [NoQuery EXCEPT !.name = name, !.minPoint = minPoint,
                    !.sortBy = sortBy, !.order = order] :
      name \in {Undefined, <<"b">>, <<"A","N">>},
      minPoint \in {Undefined, <<"5","0">>, <<"6","0">>},
      sortBy \in {Absent} \cup SortKeys,
      order \in {Absent} \cup Orders }

\* the handler of GET /api/leaderboard/search on one query
CallSearchLeaderboard ==
  /\ cres = NoCall
  /\ \E query \in SearchPool :
       LET filtered == Truthy(query.name) \/ Truthy(query.minPoint)
           page == paginateAndSort(build, searchFilter(leaderboardCache, query), query)
       IN  /\ cres' = [fn |-> "search", query |-> query, before |-> leaderboardCache,
                       reply |-> leaderboardReply("leaderboard/search", page)]
           /\ leaderboardCache' = IF filtered THEN leaderboardCache ELSE page.arg
  /\ UNCHANGED <<build, playersCache, leaderboard2Cache, lobbiesData, lastUpdated,
                 cycle, pipe, listening, reply, entryA, entryB>>

\* a players sheet of three players and a padding row
QueryPlayersSheet ==
  << PlayerRow(<<"P","a">>, <<"7">>, <<"m">>),
     PlayerRow(<<" ">>, <<>>, <<>>),
     PlayerRow(<<"b">>, <<"n","a">>, Undefined),
     PlayerRow(<<" ","p","o"," ">>, <<"1","2">>, <<"e">>) >>

\* one run of syncPlayersData
LoadPlayers ==
  /\ cres = NoCall
  /\ \E resp \in {FetchError, Fetched(<<>>), Fetched(QueryPlayersSheet)} :
       LET run == syncPlayersData(playersCache, resp)
       IN  /\ playersCache' = run.cache
           /\ cres' = [fn |-> "syncPlayersData", resp |-> resp,
                       assigned |-> run.assigned]
  /\ UNCHANGED <<build, leaderboardCache, leaderboard2Cache, lobbiesData, lastUpdated,
                 cycle, pipe, listening, reply, entryA, entryB>>

\* values of the page and limit parameters: absent, decimal strings, text
PageParams == { Undefined, <<"1">>, <<"2">>, <<"3">>, <<"6">>, <<"a","b","c">> }
LimitParams == { Undefined, <<"1">>, <<"2">>, <<"0">>, <<"a","b","c">> }

\* queries of GET /api/leaderboard
PagePool ==
  { [NoQuery EXCEPT !.page = page, !.limit = limit, !.sortBy = sortBy, !.order = order] :
      page \in PageParams, limit \in LimitParams,
      sortBy \in {Absent, "total"}, order \in {Absent, "asc"} }

\* queries of GET /api/players
PlayerPagePool ==
  { [NoQuery EXCEPT !.page = page, !.limit = limit, !.q = q] :
      page \in PageParams \cup {<<>>}, limit \in LimitParams \cup {<<>>},
      q \in {Undefined, <<"P">>} }

\* the handler of GET /api/leaderboard on one query
CallGetLeaderboard ==
  /\ cres = NoCall
  /\ \E query \in PagePool :
       LET page == paginateAndSort(build, leaderboardCache, query)
       IN  /\ cres' = [fn |-> "list", query |-> query, before |-> leaderboardCache,
                       reply |-> leaderboardReply("leaderboard", page)]
           /\ leaderboardCache' = page.arg
  /\ UNCHANGED <<build, playersCache, leaderboard2Cache, lobbiesData, lastUpdated,
                 cycle, pipe, listening, reply, entryA, entryB>>

\* the handler of GET /api/players on one query
CallGetPlayers ==
  /\ cres = NoCall
  /\ \E query \in PlayerPagePool :
       cres' = [fn |-> "players", query |-> query, before |-> playersCache,
                reply |-> playersReply(playersCache, query)]
  /\ UNCHANGED <<build, caches, lastUpdated, cycle, pipe, listening, reply,
                 entryA, entryB>>

\* the call has returned: the next one starts from the caches it left
ReturnQuery ==
  /\ cres # NoCall
  /\ cres' = NoCall
  /\ UNCHANGED <<build, serverVars, entryA, entryB>>

NextQuery ==
  \/ ReturnQuery
  \/ LoadLeaderboard
  \/ LoadPlayers
  \/ CallSearchLeaderboard
  \/ CallGetLeaderboard
  \/ CallGetPlayers

SpecQuery == InitSync /\ [][NextQuery]_vars

\* entry e passes the filters of query q
Matches(e, q) ==
  /\ Truthy(q.name) => includes(toLowerCase(e.name), toLowerCase(q.name))
  /\ Truthy(q.minPoint) => e.totalPoint >= DigitsValue(q.minPoint)

\* the entry without its position label
Unlabelled(e) == [f \in DOMAIN e \ {"position"} |-> e[f]]

\* C12: a search returns exactly the entries of the snapshot that pass the name
\* and minPoint filters, in the order of the five-level cascade on the requested
\* key (reversed for order = asc), labelled "1".."k" in that order.
C12_SearchFilteredRanked ==
  cres.fn = "search" =>
    LET q == cres.query
        data == cres.reply.data
        hits == SelectSeq(cres.before, LAMBDA e : Matches(e, q))
        key == IF q.sortBy = Absent THEN "totalPoint" ELSE q.sortBy
        dir == IF q.order = "asc" THEN -1 ELSE 1
    IN  /\ Len(data) = Len(hits)
        /\ cres.reply.meta.total = Len(hits)
        /\ \A h \in Range(hits) : \E i \in 1..Len(data) : Unlabelled(data[i]) = Unlabelled(h)
        /\ \A i, j \in 1..Len(data) : i < j => dir * RefSign(data[i], data[j], key) <= 0
        /\ \A i \in 1..Len(data) : data[i].position = toString(i)

\* the same statement for the build of part_000 alone
C12_SearchInPart000 == build = "part_000" => C12_SearchFilteredRanked

\* the example of section 8: minPoint = 50 on the snapshot of the four rows
C12_Example ==
  /\ cres.fn = "search"
  /\ cres.query = [NoQuery EXCEPT !.minPoint = <<"5","0">>]
  /\ Len(cres.before) = 4
  /\ Len(cres.reply.data) = 2

\* a parameter value that is absent or is not a decimal number
NotDecimal(x) ==
  x = Undefined \/ x = <<>> \/ \E i \in 1..Len(x) : ~IsDigit(x[i])

\* a reply of the query layer has been produced
Paged == cres.fn \in {"list", "search", "players"}

\* C13: the page and page size reported in meta are numbers, 1 and 10 when the
\* page / limit parameter is absent or not numeric, and totalPages is a number.
C13_PagingIsNumeric ==
  Paged =>
    LET q == cres.query
        meta == cres.reply.meta
    IN  /\ IsNum(meta.currentPage) /\ IsNum(meta.pageSize) /\ IsNum(meta.totalPages)
        /\ NotDecimal(q.page) => meta.currentPage = Num(1)
        /\ NotDecimal(q.limit) => meta.pageSize = Num(10)

\* the part of C13 that the code keeps: absent page and limit give 1 and 10
C13_AbsentGivesDefaults ==
  (Paged /\ cres.query.page = Undefined /\ cres.query.limit = Undefined) =>
    /\ cres.reply.meta.currentPage = Num(1)
    /\ cres.reply.meta.pageSize = Num(10)

\* the reply of the handler recorded in cres to query q on the same snapshot
ReplyTo(q) ==
  CASE cres.fn = "list" ->
         leaderboardReply("leaderboard", paginateAndSort(build, cres.before, q))
    [] cres.fn = "search" ->
         leaderboardReply("leaderboard/search",
                          paginateAndSort(build, searchFilter(cres.before, q), q))
    [] cres.fn = "players" -> playersReply(cres.before, q)

\* the filtered and sorted list of the query: its first page under the default
\* page size, which no snapshot of the pools exceeds
FullList == ReplyTo([cres.query EXCEPT !.page = Undefined, !.limit = Undefined]).data

\* the data of pages 1..k of the query, one after the other
RECURSIVE PagesUpTo(_)
PagesUpTo(k) ==
  IF k = 0 THEN <<>>
  ELSE PagesUpTo(k - 1) \o ReplyTo([cres.query EXCEPT !.page = toString(k)]).data

\* C14: for page >= 1 and page size >= 1, meta.total is the size n of the
\* filtered list, meta.totalPages is ceil(n / pageSize), the data are the items
\* (page-1)*pageSize .. min(page*pageSize, n)-1 of the filtered and sorted list,
\* and pages 1..totalPages laid end to end are that list.
C14_PagesPartition ==
  LET meta == cres.reply.meta
  IN  (/\ Paged
       /\ IsNum(meta.currentPage) /\ IsNum(meta.pageSize)
       /\ meta.currentPage.v >= 1 /\ meta.pageSize.v >= 1) =>
        LET page == meta.currentPage.v
            pageSize == meta.pageSize.v
            n == Len(FullList)
            lo == (page - 1) * pageSize
            hi == IF page * pageSize < n THEN page * pageSize ELSE n
            pages == (n + pageSize - 1) \div pageSize
        IN  /\ meta.total = n
            /\ meta.totalPages = Num(pages)
            /\ cres.reply.data = IF lo >= hi THEN <<>> ELSE SubSeq(FullList, lo + 1, hi)
            /\ PagesUpTo(pages) = FullList

\* C14 witness: page 2 of 3 of a five-entry leaderboard, two entries a page
C14_Witness ==
  /\ cres.fn = "list"
  /\ Len(cres.before) = 5
  /\ cres.reply.meta.currentPage = Num(2)
  /\ cres.reply.meta.totalPages = Num(3)
  /\ Len(cres.reply.data) = 2

-----------------------------------------------------------------------------
(* The lobby pipeline and its endpoint on their own: syncLobbiesData is run  *)
(* on grids of several heights and widths, even and ragged, whose cells name *)
(* their own address, and GET /api/lobbies/:day is called on the result.     *)

\* a grid of h rows, w cells wide; a ragged grid has every third row cut to 3
\* cells.  The cell at 0-based (r, c) reads "r.c", blank in places, padded with
\* blanks in others.
Grid(h, w, ragged) ==
  LET GridCell(r, c) ==
        IF (r + c) % 7 = 3 THEN <<" ">>
        ELSE IF (r + c) % 2 = 0
          THEN <<" ">> \o toString(r) \o <<".">> \o toString(c) \o <<" ">>
        ELSE toString(r) \o <<".">> \o toString(c)
  IN  [r1 \in 1..h |->
         [c1 \in 1..(IF ragged /\ r1 % 3 = 0 /\ w > 3 THEN 3 ELSE w) |->
            GridCell(r1 - 1, c1 - 1)]]

LobbyGrids ==
  { Grid(h, w, ragged) :
      h \in {0, 4, 13, 40, 76}, w \in {1, 26, 31, 56, 60}, ragged \in BOOLEAN }

LobbyDayParams == { <<"1">>, <<"2">>, <<"3">>, <<"0">>, <<"1","2">>, <<"d","a","y","1">> }

\* one run of syncLobbiesData
LoadLobbies ==
  /\ cres = NoCall
  /\ \E resp \in {FetchError} \cup {Fetched(grid) : grid \in LobbyGrids} :
       LET run == syncLobbiesData(lobbiesData, resp)
       IN  /\ lobbiesData' = run.cache
           /\ cres' = [fn |-> "syncLobbiesData", resp |-> resp,
                       assigned |-> run.assigned]
  /\ UNCHANGED <<build, playersCache, leaderboardCache, leaderboard2Cache, lastUpdated,
                 cycle, pipe, listening, reply, entryA, entryB>>

\* the handler of GET /api/lobbies/:day on one value of day
CallGetLobbies ==
  /\ cres = NoCall
  /\ \E day \in LobbyDayParams :
       cres' = [fn |-> "lobbies", day |-> day, before |-> lobbiesData,
                reply |-> lobbiesReply(lobbiesData, day)]
  /\ UNCHANGED <<build, caches, lastUpdated, cycle, pipe, listening, reply,
                 entryA, entryB>>

NextLobbies ==
  \/ ReturnQuery
  \/ LoadLobbies
  \/ CallGetLobbies

SpecLobbies == InitSync /\ [][NextLobbies]_vars

\* C15: day "1" returns the day-1 tree and day "2" the day-2 tree once they are
\* loaded, and every other value of day returns the not-found failure body.
C15_DaySelectsTree ==
  cres.fn = "lobbies" =>
    /\ (cres.day = <<"1">> /\ cres.before.day1 # Null) =>
         (cres.reply.success /\ cres.reply.data = cres.before.day1)
    /\ (cres.day = <<"2">> /\ cres.before.day2 # Null) =>
         (cres.reply.success /\ cres.reply.data = cres.before.day2)
    /\ cres.day \notin {<<"1">>, <<"2">>} =>
         (~cres.reply.success /\ cres.reply.code = 404)

\* the part of C15 that the code keeps: the two valid selectors
C15_ValidDays ==
  (cres.fn = "lobbies" /\ cres.day \in {<<"1">>, <<"2">>}) =>
    LET tree == IF cres.day = <<"1">> THEN cres.before.day1 ELSE cres.before.day2
    IN  IF tree = Null THEN ~cres.reply.success
        ELSE cres.reply.success /\ cres.reply.data = tree

\* the trimmed content of the cell at 0-based (row, col) of the grid, empty
\* when the address lies outside the grid
CellOrEmpty(grid, row, col) ==
  IF row < Len(grid) /\ col < Len(grid[row + 1]) THEN trim(grid[row + 1][col + 1])
  ELSE <<>>

\* the tree of day d held in lobbiesData
DayTree(d) == IF d = 1 THEN lobbiesData.day1[1] ELSE lobbiesData.day2[1]

\* the columns parseDay reads for a day starting at startCol
ColumnsRead(startCol) ==
  { startCol + r * ROUND_COL_STEP : r \in 0..(TOTAL_ROUNDS - 1) }

\* C18: after a run of syncLobbiesData on any fetched grid, the member name at
\* (day d, round r, lobby l, member m) is the trimmed cell at row 4 + 9*l + m
\* and column (0 for day 1, 30 for day 2) + 5*r, empty outside the grid; the
\* run assigns both trees, and the two days read disjoint columns.
C18_DecoderAddresses ==
  (cres.fn = "syncLobbiesData" /\ ~cres.resp.error) =>
    /\ cres.assigned
    /\ lobbiesData.day1 # Null /\ lobbiesData.day2 # Null
    /\ \A d \in 1..2, r \in 0..5, l \in 0..7, m \in 0..7 :
         DayTree(d).rounds[r + 1].lobbies[l + 1].members[m + 1].name
           = CellOrEmpty(cres.resp.rows, 4 + 9 * l + m,
                         (IF d = 1 THEN 0 ELSE 30) + 5 * r)
    /\ ColumnsRead(0) \cap ColumnsRead(DAY2_START_COL) = {}

\* C18 witness: a grid of 40 rows, some cut short, has been decoded: lobby 1 of
\* day 1 holds a name and the addresses of lobby 8 lie outside the grid
C18_Witness ==
  /\ cres.fn = "syncLobbiesData" /\ ~cres.resp.error
  /\ Len(cres.resp.rows) = 40
  /\ \E r \in 1..40 : Len(cres.resp.rows[r]) = 3
  /\ DayTree(1).rounds[1].lobbies[1].members[2].name = <<"5",".","0">>
  /\ DayTree(2).rounds[6].lobbies[4].members[1].name # <<>>
  /\ DayTree(2).rounds[6].lobbies[8].members[8].name = <<>>

\* the 0-based index of the first row with a cell reading "name", -1 if none
HeaderRowOf(rows) ==
  LET isHeader(r) == \E c \in 1..Len(rows[r]) : toLowerCase(trim(rows[r][c])) = HdrName
  IN  IF \E r \in 1..Len(rows) : isHeader(r)
        THEN (CHOOSE r \in 1..Len(rows) : isHeader(r) /\ \A q \in 1..(r - 1) : ~isHeader(q)) - 1
        ELSE -1

\* the 0-based index of the first cell of row reading "name"
NameColumnOf(row) ==
  (CHOOSE c \in 1..Len(row) :
     /\ toLowerCase(trim(row[c])) = HdrName
     /\ \A b \in 1..(c - 1) : toLowerCase(trim(row[b])) # HdrName) - 1

\* the trimmed names of the rows after the header whose name cell exists and is
\* not blank, in row order
NamedRows(rows) ==
  LET h == HeaderRowOf(rows)
      n == NameColumnOf(rows[h + 1])
      after == SubSeq(rows, h + 2, Len(rows))
      named == SelectSeq(after, LAMBDA row : n < Len(row) /\ trim(row[n + 1]) # <<>>)
  IN  [i \in 1..Len(named) |-> trim(named[i][n + 1])]

\* a run of syncLeaderboardData on a grid that has a header row
ParsedGridWithHeader ==
  /\ cres.fn = "syncLeaderboardData"
  /\ ~cres.resp.error
  /\ HeaderRowOf(cres.resp.rows) # -1

\* some row after the header ends before the name column
HasShortRow(rows) ==
  LET h == HeaderRowOf(rows)
      n == NameColumnOf(rows[h + 1])
  IN  \E r \in (h + 2)..Len(rows) : Len(rows[r]) <= n

\* the snapshot holds one record for each name of `names` and nothing else
OneRecordEach(names) ==
  /\ Len(leaderboardCache) = Len(names)
  /\ \A i \in 1..Len(names) :
       Cardinality({j \in 1..Len(leaderboardCache) : leaderboardCache[j].name = names[i]}) = 1

\* C19: on every grid with a header row the parse succeeds and yields one record
\* for each later row whose name cell is not blank, and none for the rows whose
\* name cell is blank or missing, also when a row ends before the name column.
C19_OneRecordPerNamedRow ==
  ParsedGridWithHeader =>
    /\ cres.assigned
    /\ OneRecordEach(NamedRows(cres.resp.rows))

\* the part of C19 that the code keeps: grids in which every row after the
\* header reaches the name column
C19_WhenNoShortRow ==
  (ParsedGridWithHeader /\ ~HasShortRow(cres.resp.rows)) =>
    /\ cres.assigned
    /\ OneRecordEach(NamedRows(cres.resp.rows))

\* a grid with player rows and padding rows has been parsed into three records
C19_PaddingDropped ==
  /\ ParsedGridWithHeader
  /\ Len(cres.resp.rows) = 7
  /\ Len(leaderboardCache) = 3

\* every row of the grid has the width of its first row
Rectangular(rows) == \A r \in 1..Len(rows) : Len(rows[r]) = Len(rows[1])

\* permutations of the columns 1..w: every exchange of two columns, the
\* reversal and the rotation by one
ColumnPerms(w) ==
  { [c \in 1..w |-> IF c = i THEN j ELSE IF c = j THEN i ELSE c] : i, j \in 1..w }
  \cup { [c \in 1..w |-> w + 1 - c], [c \in 1..w |-> (c % w) + 1] }

\* the grid with column c of every row taken from column perm[c]
PermuteColumns(rows, perm) ==
  [r \in 1..Len(rows) |-> [c \in 1..Len(rows[r]) |-> rows[r][perm[c]]]]

\* the header names the parser recognises
RecognisedHeaders ==
  {HdrPosition, HdrPrize, HdrName, HdrTotal, HdrTotalPoint} \cup {HdrM(k) : k \in 1..6}

\* the header row of the grid, trimmed and in lower case
HeaderCells(rows) ==
  LET row == rows[HeaderRowOf(rows) + 1]
  IN  [c \in 1..Len(row) |-> toLowerCase(trim(row[c]))]

\* no recognised header occurs twice in the header row
DistinctHeaders(rows) ==
  \A b, c \in 1..Len(HeaderCells(rows)) :
    (b # c /\ HeaderCells(rows)[b] \in RecognisedHeaders)
      => HeaderCells(rows)[b] # HeaderCells(rows)[c]

\* a run of syncLeaderboardData on a rectangular grid that has a header row
ParsedRectangularGrid == ParsedGridWithHeader /\ Rectangular(cres.resp.rows)

\* the run on the grid with its columns permuted ends as the recorded run did,
\* with the same snapshot, for each permutation of ColumnPerms
SameUnderPermutations ==
  \A perm \in ColumnPerms(Len(cres.resp.rows[1])) :
    LET run == syncLeaderboardData(build, <<>>,
                                   Fetched(PermuteColumns(cres.resp.rows, perm)))
    IN  /\ run.assigned = cres.assigned
        /\ run.assigned => run.cache = leaderboardCache

\* the fields whose header is absent from the header row hold "" or 0 in every
\* record (the position is the sheet's only in server.ts: part_000 relabels it)
AbsentHeaderDefaults ==
  LET hdr == Range(HeaderCells(cres.resp.rows))
  IN  cres.assigned =>
        \A i \in 1..Len(leaderboardCache) :
          LET e == leaderboardCache[i]
          IN  /\ (HdrPrize \notin hdr) => e.prize = <<>>
              /\ (HdrPosition \notin hdr /\ build = "server") => e.position = <<>>
              /\ (HdrTotal \notin hdr) => e.total = 0
              /\ (HdrTotalPoint \notin hdr) => e.totalPoint = 0
              /\ \A k \in 1..6 : (HdrM(k) \notin hdr) => e.matches[k] = 0

\* C21 as stated: for every grid and every permutation of its columns the parser
\* extracts the same records, and a recognised header that is absent makes its
\* field "" or 0 in every record.
C21_Original ==
  ParsedRectangularGrid => (SameUnderPermutations /\ AbsentHeaderDefaults)

\* C21 amended: for every grid whose header row holds each recognised header at
\* most once, and every permutation of its columns, the parser extracts the same
\* records; a recognised header that is absent makes its field "" or 0 in every
\* record.  (With a header occurring twice the first of its columns is read,
\* and which one is first depends on the order of the columns.)
C21_Amended ==
  /\ (ParsedRectangularGrid /\ DistinctHeaders(cres.resp.rows)) => SameUnderPermutations
  /\ ParsedRectangularGrid => AbsentHeaderDefaults

\* C21 witness: the sheet without the Prize, M3..M6 and Total columns has been
\* parsed into three records
C21_Witness ==
  /\ ParsedRectangularGrid /\ DistinctHeaders(cres.resp.rows)
  /\ Len(cres.resp.rows[1]) = 5
  /\ Len(leaderboardCache) = 3
  /\ \A i \in 1..3 : leaderboardCache[i].total = 0 /\ leaderboardCache[i].totalPoint > 0

\* the shape of a day tree: day d, rounds 1..6 in order, in each round the
\* lobbies "Lobby 1".."Lobby 8" in order, in each lobby 8 members with a name
WellShaped(tree, d) ==
  /\ tree.day = d
  /\ Len(tree.rounds) = 6
  /\ \A r \in 1..6 :
       /\ tree.rounds[r].roundNumber = r
       /\ Len(tree.rounds[r].lobbies) = 8
       /\ \A l \in 1..8 :
            LET lobby == tree.rounds[r].lobbies[l]
            IN  /\ lobby.lobbyName = <<"L","o","b","b","y"," ", Digits[l + 1]>>
                /\ Len(lobby.members) = 8
                /\ \A m \in 1..8 : DOMAIN lobby.members[m] = {"name"}

\* after a run on a fetched grid, a slot whose cell is blank or lies outside
\* the grid holds a member named ""
EmptySlotsKept ==
  (cres.fn = "syncLobbiesData" /\ ~cres.resp.error) =>
    \A d \in 1..2, r \in 0..5, l \in 0..7, m \in 0..7 :
      CellOrEmpty(cres.resp.rows, 4 + 9 * l + m, (IF d = 1 THEN 0 ELSE 30) + 5 * r) = <<>>
        => /\ Len(DayTree(d).rounds[r + 1].lobbies[l + 1].members) = 8
           /\ DayTree(d).rounds[r + 1].lobbies[l + 1].members[m + 1].name = <<>>

\* C22: each cached day tree that is not null has 6 rounds numbered 1..6, in
\* each round the 8 lobbies "Lobby 1".."Lobby 8", in each lobby 8 members,
\* whatever the grid; an empty cell gives a member named "" kept in its slot.
C22_TreeShape ==
  /\ lobbiesData.day1 # Null => WellShaped(lobbiesData.day1[1], 1)
  /\ lobbiesData.day2 # Null => WellShaped(lobbiesData.day2[1], 2)
  /\ EmptySlotsKept

\* C22 witness: a grid of 13 rows has been decoded; in lobby 1 of day 1 member 7
\* (blank cell) is named "" and member 8 after it holds its name; lobby 2 lies
\* partly and lobby 8 wholly outside the grid
C22_Witness ==
  /\ cres.fn = "syncLobbiesData" /\ ~cres.resp.error
  /\ Len(cres.resp.rows) = 13
  /\ DayTree(1).rounds[1].lobbies[1].members[7].name = <<>>
  /\ DayTree(1).rounds[1].lobbies[1].members[8].name = <<"1","1",".","0">>
  /\ DayTree(1).rounds[1].lobbies[8].members[1].name = <<>>

====
